---- MODULE Spec2Model ----
(***************************************************************************)
(* State-machine model of power-manager (src/src/power_manager/cli.py):    *)
(* the primary flow of main(), the listener thread of AnimationProcess,    *)
(* the animation subprocess and the outcomes of the external commands.     *)
(***************************************************************************)
EXTENDS Integers, Sequences, FiniteSets, TLC

VARIABLES
    action,          \* args.action
    animation_name,  \* args.animation
    hold_time,       \* args.hold
    animations,      \* what the discovery finds on disk for animation_name
    pc,              \* position of the primary flow
    script_path,     \* AnimationProcess.script_path
    process,         \* AnimationProcess.process: "None" | "running" | "exited"
    ready_event,     \* AnimationProcess.ready_event
    black_event,     \* AnimationProcess.black_event
    reader,          \* position of the listener thread (_reader_thread)
    reader_error,    \* the listener went through its except clause
    stdout,          \* lines written by the subprocess, not yet read
    signals,         \* the lines the listener has logged ("Animation signal: ...")
    emitted,         \* number of lines the subprocess has written
    cmd,             \* local cmd of execute_power_action / run_without_animation
    attempt,         \* loop variable of send_ipc_with_retry
    holds,           \* iterations of the final hold loop
    handlers,        \* SIGTERM/SIGINT handlers installed
    log_writers,     \* threads that have appended to DEBUG_LOG
    interrupted,     \* signal_handler has run
    exit_code,       \* process exit status, -1 while running
    trace            \* what the primary flow has done so far, in order

vars == <<action, animation_name, hold_time, animations, pc, script_path,
          process, ready_event, black_event, reader, reader_error, stdout,
          signals, emitted, cmd, attempt, holds, handlers, log_writers, interrupted,
          exit_code, trace>>

----------------------------------------------------------------------------
(* Bounds of the model *)

MaxLines == 2
MaxHolds == 2

(* Inputs *)

Actions == {"shutdown", "reboot", "logout", "suspend", "hibernate", "windows", "test"}
AnimationNames == {"fire", "none"}
HoldValues == {-1, 0, 3}
AnimationsOnDisk == {"no_dir", "no_script", "installed"}

None == <<>>
NoPath == "None"

(* Raw lines of the subprocess: sequences of chunks; " " and "\n" are      *)
(* whitespace, "\\xff" is a byte the text decoder rejects.                  *)
Whitespace == {" ", "\n"}
RawLines == { <<"READY", "\n">>, <<"BLACK", "\n">>, <<" ", "x", "\n">>,
              <<"\\xff", "\n">> }

(* Outputs of "loginctl list-sessions --no-legend": lines of tokens *)
SessionOutputs == { <<>>, << <<>> >>, << <<"c1", "1000", "user">> >>,
                    << <<"7", "1000", "user">>, <<"c1", "1000", "user">> >> }

----------------------------------------------------------------------------
(* Constants of the program *)

DEFAULT_ANIMATION == "fire"
max_attempts == 5
delay == 1
GraceSleep == 3
DefaultHold == 3

POWER_COMMANDS ==
    [a \in Actions |->
        CASE a = "shutdown"  -> <<"sudo", "-A", "shutdown", "-h", "now">>
          [] a = "reboot"    -> <<"sudo", "-A", "reboot">>
          [] a = "logout"    -> <<"loginctl", "terminate-session", "">>
          [] a = "suspend"   -> <<"systemctl", "suspend">>
          [] a = "hibernate" -> <<"systemctl", "hibernate">>
          [] a = "windows"   -> <<"sudo", "-A", "reboot">>
          [] a = "test"      -> None]

BootEntryCmd == <<"sudo", "-A", "efibootmgr", "--bootnext", "0003">>
SessionLookupCmd == <<"loginctl", "list-sessions", "--no-legend">>
Unfreeze == "screen-freeze/unfreeze"
ShowCursor == "cursor-control/show"

----------------------------------------------------------------------------
(* Pure helpers *)

Ev(e, c, n) == [ev |-> e, cmd |-> c, n |-> n]
Do(e) == Ev(e, <<>>, 0)
B(b) == IF b THEN 1 ELSE 0

\* get_animation_script (fallback resolver)
get_animation_script(name) ==
    IF animations = "no_dir" THEN NoPath
    ELSE "animations/" \o name \o "/animate.py"

\* os.path.exists(path) for a string path
path_exists(path) == path # NoPath /\ animations = "installed"

RECURSIVE lstrip(_)
lstrip(s) == IF s # <<>> /\ Head(s) \in Whitespace THEN lstrip(Tail(s)) ELSE s

RECURSIVE rstrip(_)
rstrip(s) ==
    IF s # <<>> /\ s[Len(s)] \in Whitespace THEN rstrip(SubSeq(s, 1, Len(s) - 1)) ELSE s

\* str.strip()
strip(s) == rstrip(lstrip(s))

\* the text decoder of the pipe raises on a bad byte
Undecodable(line) == \E i \in 1..Len(line) : line[i] = "\\xff"

\* get_session_id: first token of the first line that has one, else ""
RECURSIVE first_token(_)
first_token(lines) ==
    IF lines = <<>> THEN ""
    ELSE IF Head(lines) # <<>> THEN Head(lines)[1]
    ELSE first_token(Tail(lines))

\* the id used without looking at it
truthy_always(s) == TRUE

\* if session_id: a non-empty string
truthy(s) == s # ""

get_session_id(raised, out) == IF raised THEN "" ELSE first_token(out)

Alive == exit_code = -1

----------------------------------------------------------------------------
(* Initial state: the arguments parse_args() accepted and what is on disk *)

Init ==
    /\ action \in Actions
    /\ animation_name \in AnimationNames
    /\ hold_time \in (IF action = "test" THEN HoldValues ELSE {DefaultHold})
    /\ animations \in AnimationsOnDisk
    /\ pc = "main"
    /\ script_path = NoPath
    /\ process = "None"
    /\ ready_event = FALSE
    /\ black_event = FALSE
    /\ reader = "None"
    /\ reader_error = FALSE
    /\ stdout = <<>>
    /\ signals = <<>>
    /\ emitted = 0
    /\ cmd = None
    /\ attempt = 0
    /\ holds = 0
    /\ handlers = FALSE
    /\ log_writers = {}
    /\ interrupted = FALSE
    /\ exit_code = -1
    /\ trace = <<>>

inputs == <<action, animation_name, hold_time, animations>>
handle == <<script_path, process, ready_event, black_event, reader, reader_error,
            stdout, signals, emitted>>
latches == <<ready_event, black_event>>

\* what the primary flow leaves alone unless it says otherwise
Primary(unch) ==
    /\ Alive
    /\ UNCHANGED <<inputs, interrupted>>
    /\ UNCHANGED unch

Log(events) == trace' = trace \o events

\* an uncaught exception ends the interpreter with status 1
Raise == pc' = "crashed" /\ exit_code' = 1

----------------------------------------------------------------------------
(* main, up to the choice of the path *)

main_begin ==
    /\ pc = "main"
    /\ Primary(<<handle, cmd, attempt, holds, exit_code>>)
    /\ handlers' = TRUE
    /\ log_writers' = log_writers \cup {"main"}
    /\ Log(<<Do("install_signal_handlers")>>)
    /\ pc' = IF animation_name = "none" THEN "run_without_animation" ELSE "start"

(* AnimationProcess.__init__ and start(), and main's handling of its result *)
start ==
    /\ pc = "start"
    /\ Primary(<<ready_event, black_event, reader_error, stdout, signals, emitted,
                 cmd, attempt, holds, handlers, log_writers>>)
    /\ script_path' = get_animation_script(animation_name)
    /\ IF script_path' = NoPath
       THEN \* os.path.exists(None) raises TypeError
            /\ Raise
            /\ UNCHANGED <<process, reader, trace>>
       ELSE IF ~path_exists(script_path')
       THEN /\ Log(<<Do("error_script_not_found"), Do("error_start"), Ev("return", <<>>, 1)>>)
            /\ pc' = "returned"
            /\ exit_code' = 1
            /\ UNCHANGED <<process, reader>>
       ELSE /\ process' = "running"
            /\ reader' = "reading"
            /\ Log(<<Ev("Popen_animation", <<"python3", script_path'>>, 0),
                     Do("thread_start")>>)
            /\ pc' = "wait_ready"
            /\ UNCHANGED exit_code

(* wait_ready / wait_black: Event.wait(timeout) returns the flag, at the    *)
(* latest when the timeout elapses                                          *)
\* a wait without its timeout
WaitOverNoTimeout(flag) == flag

\* Event.wait(timeout) is over: the flag is set or the timeout has elapsed
WaitOver(flag) == \E timed_out \in BOOLEAN : flag \/ timed_out

\* the power action right after the first wait
AfterReadySkipsBlack == "execute_power_action"

\* main: what follows each wait, whatever it returned
AfterReady == "wait_black"
AfterBlack == "execute_power_action"

wait_ready_call ==
    /\ pc = "wait_ready"
    /\ Primary(<<handle, cmd, attempt, holds, handlers, log_writers, exit_code>>)
    /\ Log(<<Ev("wait_ready", <<>>, B(reader = "done"))>>)
    /\ pc' = "in_wait_ready"

wait_ready_return ==
    /\ pc = "in_wait_ready"
    /\ WaitOver(ready_event)
    /\ Primary(<<handle, cmd, attempt, holds, handlers, log_writers, exit_code>>)
    /\ LET result == ready_event IN
       Log(<<Ev("wait_ready_ret", <<>>, B(result))>>
           \o IF result THEN <<>> ELSE <<Do("warn_ready")>>)
    /\ pc' = AfterReady

wait_black_call ==
    /\ pc = "wait_black"
    /\ Primary(<<handle, cmd, attempt, holds, handlers, log_writers, exit_code>>)
    /\ Log(<<Ev("wait_black", <<>>, B(reader = "done"))>>)
    /\ pc' = "in_wait_black"

wait_black_return ==
    /\ pc = "in_wait_black"
    /\ WaitOver(black_event)
    /\ Primary(<<handle, cmd, attempt, holds, handlers, log_writers, exit_code>>)
    /\ LET result == black_event IN
       Log(<<Ev("wait_black_ret", <<>>, B(result))>>
           \o IF result THEN <<>> ELSE <<Do("warn_black")>>)
    /\ pc' = AfterBlack

----------------------------------------------------------------------------
(* execute_power_action(action, animation, hold_time) *)

Resuming == action \in {"suspend", "hibernate"}

\* an execute_power_action that tears the animation down where it should
\* launch the command
execute_power_action_tears_down ==
    /\ pc = "execute_power_action"
    /\ Primary(<<handle, attempt, holds, handlers, log_writers, exit_code>>)
    /\ cmd' = POWER_COMMANDS[action]
    /\ Log(<<Do("execute_power_action")>>)
    /\ pc' = IF cmd' = None THEN "test_sleep"
             ELSE IF action = "logout" THEN "session"
             ELSE IF action = "windows" THEN "boot"
             ELSE "terminate"

execute_power_action ==
    /\ pc = "execute_power_action"
    /\ Primary(<<handle, attempt, holds, handlers, log_writers, exit_code>>)
    /\ cmd' = POWER_COMMANDS[action]
    /\ Log(<<Do("execute_power_action")>>)
    /\ pc' = IF cmd' = None THEN "test_sleep"
             ELSE IF action = "logout" THEN "session"
             ELSE IF action = "windows" THEN "boot"
             ELSE "launch"

\* test mode: time.sleep(hold_time); a negative length raises ValueError
test_sleep ==
    /\ pc = "test_sleep"
    /\ Primary(<<handle, cmd, attempt, holds, handlers, log_writers>>)
    /\ IF hold_time < 0
       THEN Raise /\ UNCHANGED trace
       ELSE /\ Log(<<Ev("sleep_hold", <<>>, hold_time)>>)
            /\ pc' = "terminate"
            /\ UNCHANGED exit_code

\* logout: get_session_id(), then the command with the id or the abort
session ==
    /\ pc = "session"
    /\ Primary(<<handle, attempt, holds, handlers, log_writers, exit_code>>)
    /\ \E raised \in BOOLEAN, out \in SessionOutputs :
         LET session_id == get_session_id(raised, out) IN
         IF truthy(session_id)
         THEN /\ cmd' = <<"loginctl", "terminate-session", session_id>>
              /\ Log(<<Ev("run", SessionLookupCmd, 0), Ev("session_id", <<session_id>>, 0)>>)
              /\ pc' = "launch"
         ELSE /\ Log(<<Ev("run", SessionLookupCmd, 0), Ev("session_id", <<session_id>>, 0),
                       Do("error_session")>>)
              /\ pc' = "terminate"
              /\ UNCHANGED cmd

\* windows: efibootmgr, a warning when it exits non-zero
boot ==
    /\ pc = "boot"
    /\ Primary(<<handle, cmd, attempt, holds, handlers, log_writers, exit_code>>)
    /\ \E returncode \in {0, 1} :
         Log(<<Ev("run", BootEntryCmd, returncode)>>
             \o IF returncode # 0 THEN <<Do("warn_boot")>> ELSE <<>>)
    /\ pc' = "launch"

\* the hold loop taken for every action
AfterLaunchAlwaysHolds == "hold"

\* the resume branch taken for every action
AfterLaunchAlwaysResumes == "grace_sleep"

\* the resume branch taken for logout as well
AfterLaunchLogoutResumes ==
    IF action \in {"suspend", "hibernate", "logout"} THEN "grace_sleep" ELSE "hold"

\* if action in ("suspend", "hibernate"): resume branch, else hold forever
AfterLaunch == IF Resuming THEN "grace_sleep" ELSE "hold"

\* subprocess.Popen(cmd), not waited for
launch ==
    /\ pc = "launch"
    /\ Primary(<<handle, cmd, attempt, holds, handlers, log_writers, exit_code>>)
    /\ Log(<<Ev("Popen", cmd, 0)>>)
    /\ pc' = AfterLaunch

grace_sleep ==
    /\ pc = "grace_sleep"
    /\ Primary(<<handle, cmd, attempt, holds, handlers, log_writers, exit_code>>)
    /\ Log(<<Ev("sleep_grace", <<>>, GraceSleep)>>)
    /\ pc' = "terminate"

\* while True: time.sleep(1)
hold ==
    /\ pc = "hold"
    /\ holds < MaxHolds
    /\ Primary(<<handle, cmd, attempt, handlers, log_writers, exit_code, trace>>)
    /\ holds' = holds + 1
    /\ pc' = "hold"

----------------------------------------------------------------------------
(* AnimationProcess.terminate() *)

AfterTerminate == IF action = "logout" THEN "main_return" ELSE "unfreeze"

terminate ==
    /\ pc = "terminate"
    /\ Primary(<<handle, cmd, attempt, holds, handlers, log_writers, exit_code>>)
    /\ IF process = "None"
       THEN /\ Log(<<Do("terminate")>>)
            /\ pc' = AfterTerminate
       ELSE /\ Log(<<Do("terminate"), Do("SIGTERM")>>)
            /\ pc' = "terminate_wait"

\* a terminate() that kills whether or not the subprocess has exited
terminate_exited_kills ==
    /\ pc = "terminate_wait"
    /\ process = "exited"
    /\ Primary(<<handle, cmd, attempt, holds, handlers, log_writers, exit_code>>)
    /\ Log(<<Do("SIGKILL")>>)
    /\ pc' = AfterTerminate

\* process.wait(timeout=2) returns: the subprocess has exited
terminate_exited ==
    /\ pc = "terminate_wait"
    /\ process = "exited"
    /\ Primary(<<handle, cmd, attempt, holds, handlers, log_writers, exit_code, trace>>)
    /\ pc' = AfterTerminate

\* process.wait(timeout=2) raises TimeoutExpired: process.kill()
terminate_kill ==
    /\ pc = "terminate_wait"
    /\ process = "running"
    /\ Primary(<<script_path, latches, reader, reader_error, stdout, signals, emitted,
                 cmd, attempt, holds, handlers, log_writers, exit_code>>)
    /\ Log(<<Do("SIGKILL")>>)
    /\ process' = "exited"
    /\ pc' = AfterTerminate

----------------------------------------------------------------------------
(* send_ipc, send_ipc_with_retry, unfreeze_compositor, show_cursor *)

Methods == {Unfreeze, ShowCursor}
IpcPc(m) == IF m = Unfreeze THEN "unfreeze" ELSE "show_cursor"
BackoffPc(m) == IF m = Unfreeze THEN "unfreeze_backoff" ELSE "show_cursor_backoff"
AfterIpc(m) == IF m = Unfreeze THEN "show_cursor" ELSE "cleanup_done"

\* range(max_attempts + 1)
LoopContinuesOnceMore(a) == a < max_attempts

\* for attempt in range(max_attempts): is there a next iteration
LoopContinues(a) == a + 1 < max_attempts

\* if attempt < max_attempts - 1: sleep before the next attempt
SleepsAfter(a) == a < max_attempts - 1

\* end of one iteration of the loop after the events `done`
NextIteration(m, done) ==
    IF LoopContinues(attempt)
    THEN /\ Log(done)
         /\ attempt' = attempt + 1
         /\ pc' = IpcPc(m)
    ELSE /\ Log(done \o <<Ev("retry_ret", <<m>>, 0)>>)
         /\ attempt' = 0
         /\ pc' = AfterIpc(m)

\* a send_ipc that lets the failure propagate
send_ipc_once_raises(m) ==
    /\ pc = IpcPc(m)
    /\ ~Resuming
    /\ Primary(<<handle, cmd, attempt, holds, handlers, log_writers>>)
    /\ \E ok \in BOOLEAN :
         IF ok
         THEN /\ Log(<<Ev("send_ipc", <<m>>, 1)>>)
              /\ pc' = AfterIpc(m)
              /\ UNCHANGED exit_code
         ELSE /\ Log(<<Ev("send_ipc", <<m>>, 0)>>)
              /\ Raise

\* unfreeze_compositor() / show_cursor() with retry=False: one send_ipc
send_ipc_once(m) ==
    /\ pc = IpcPc(m)
    /\ ~Resuming
    /\ Primary(<<handle, cmd, attempt, holds, handlers, log_writers, exit_code>>)
    /\ \E ok \in BOOLEAN : Log(<<Ev("send_ipc", <<m>>, B(ok))>>)
    /\ pc' = AfterIpc(m)

\* one iteration of send_ipc_with_retry up to its sleep
send_ipc_with_retry(m) ==
    /\ pc = IpcPc(m)
    /\ Resuming
    /\ Primary(<<handle, cmd, holds, handlers, log_writers, exit_code>>)
    /\ \E ok \in BOOLEAN :
         IF ok
         THEN /\ Log(<<Ev("send_ipc", <<m>>, 1), Ev("retry_ret", <<m>>, 1)>>)
              /\ attempt' = 0
              /\ pc' = AfterIpc(m)
         ELSE IF SleepsAfter(attempt)
         THEN /\ Log(<<Ev("send_ipc", <<m>>, 0)>>)
              /\ pc' = BackoffPc(m)
              /\ UNCHANGED attempt
         ELSE NextIteration(m, <<Ev("send_ipc", <<m>>, 0)>>)

\* time.sleep(delay) and on to the next iteration
retry_backoff(m) ==
    /\ pc = BackoffPc(m)
    /\ Primary(<<handle, cmd, holds, handlers, log_writers, exit_code>>)
    /\ NextIteration(m, <<Ev("sleep_backoff", <<m>>, delay)>>)

\* the last log line of the test and of the resume branch
cleanup_done ==
    /\ pc = "cleanup_done"
    /\ Primary(<<handle, cmd, attempt, holds, handlers, log_writers, exit_code>>)
    /\ Log(<<Do(IF Resuming THEN "resumed" ELSE "test_done")>>)
    /\ pc' = "main_return"

\* return 0 of main
main_return ==
    /\ pc = "main_return"
    /\ Primary(<<handle, cmd, attempt, holds, handlers, log_writers>>)
    /\ Log(<<Ev("return", <<>>, 0)>>)
    /\ exit_code' = 0
    /\ pc' = "returned"

----------------------------------------------------------------------------
(* run_without_animation(action, hold_time) *)

run_without_animation ==
    /\ pc = "run_without_animation"
    /\ Primary(<<handle, attempt, holds, handlers, log_writers, exit_code>>)
    /\ cmd' = POWER_COMMANDS[action]
    /\ Log(<<Do("run_without_animation")>>)
    /\ pc' = IF cmd' = None THEN "rwa_test_sleep"
             ELSE IF action = "logout" THEN "rwa_session"
             ELSE IF action = "windows" THEN "rwa_boot"
             ELSE "rwa_run"

rwa_test_sleep ==
    /\ pc = "rwa_test_sleep"
    /\ Primary(<<handle, cmd, attempt, holds, handlers, log_writers>>)
    /\ IF hold_time < 0
       THEN Raise /\ UNCHANGED trace
       ELSE /\ Log(<<Ev("sleep_hold", <<>>, hold_time), Do("test_done")>>)
            /\ pc' = "main_return"
            /\ UNCHANGED exit_code

rwa_session ==
    /\ pc = "rwa_session"
    /\ Primary(<<handle, attempt, holds, handlers, log_writers, exit_code>>)
    /\ \E raised \in BOOLEAN, out \in SessionOutputs :
         LET session_id == get_session_id(raised, out) IN
         IF truthy(session_id)
         THEN /\ cmd' = <<"loginctl", "terminate-session", session_id>>
              /\ Log(<<Ev("run", SessionLookupCmd, 0), Ev("session_id", <<session_id>>, 0)>>)
              /\ pc' = "rwa_run"
         ELSE /\ Log(<<Ev("run", SessionLookupCmd, 0), Ev("session_id", <<session_id>>, 0),
                       Do("error_session")>>)
              /\ pc' = "main_return"
              /\ UNCHANGED cmd

\* the return code of efibootmgr is not looked at here
rwa_boot ==
    /\ pc = "rwa_boot"
    /\ Primary(<<handle, cmd, attempt, holds, handlers, log_writers, exit_code>>)
    /\ \E returncode \in {0, 1} : Log(<<Ev("run", BootEntryCmd, returncode)>>)
    /\ pc' = "rwa_run"

\* subprocess.run(cmd): started, then waited for
rwa_run ==
    /\ pc = "rwa_run"
    /\ Primary(<<handle, cmd, attempt, holds, handlers, log_writers, exit_code>>)
    /\ Log(<<Ev("run", cmd, 0)>>)
    /\ pc' = "rwa_wait"

rwa_wait ==
    /\ pc = "rwa_wait"
    /\ Primary(<<handle, cmd, attempt, holds, handlers, log_writers, exit_code, trace>>)
    /\ pc' = "main_return"

----------------------------------------------------------------------------
(* The animation subprocess *)

others == <<pc, script_path, cmd, attempt, holds, handlers, interrupted, exit_code,
            trace>>

emit(line) ==
    /\ Alive
    /\ process = "running"
    /\ emitted < MaxLines
    /\ stdout' = Append(stdout, line)
    /\ emitted' = emitted + 1
    /\ UNCHANGED <<inputs, others, process, latches, reader, reader_error, signals,
                   log_writers>>

exit ==
    /\ Alive
    /\ process = "running"
    /\ process' = "exited"
    /\ UNCHANGED <<inputs, others, stdout, signals, emitted, latches, reader,
                   reader_error, log_writers>>

----------------------------------------------------------------------------
(* AnimationProcess._read_signals, the listener thread *)

\* a BLACK line that resets the ready latch
read_line_clears_ready ==
    /\ Alive
    /\ reader = "reading"
    /\ stdout # <<>>
    /\ ~Undecodable(Head(stdout))
    /\ LET line == strip(Head(stdout)) IN
         /\ ready_event' = (line = <<"READY">> \/ (ready_event /\ line # <<"BLACK">>))
         /\ black_event' = (black_event \/ line = <<"BLACK">>)
    /\ stdout' = Tail(stdout)
    /\ signals' = Append(signals, strip(Head(stdout)))
    /\ log_writers' = log_writers \cup {"reader"}
    /\ UNCHANGED <<inputs, others, process, emitted, reader, reader_error>>

\* a listener that does not log the line it read
read_line_not_logged ==
    /\ Alive
    /\ reader = "reading"
    /\ stdout # <<>>
    /\ ~Undecodable(Head(stdout))
    /\ LET line == strip(Head(stdout)) IN
         /\ ready_event' = (ready_event \/ line = <<"READY">>)
         /\ black_event' = (black_event \/ line = <<"BLACK">>)
    /\ stdout' = Tail(stdout)
    /\ signals' = Append(signals, strip(Head(stdout)))
    /\ UNCHANGED <<inputs, others, process, emitted, reader, reader_error, log_writers>>

\* a READY line that sets both latches
read_line_ready_sets_black ==
    /\ Alive
    /\ reader = "reading"
    /\ stdout # <<>>
    /\ ~Undecodable(Head(stdout))
    /\ LET line == strip(Head(stdout)) IN
         /\ ready_event' = (ready_event \/ line = <<"READY">>)
         /\ black_event' = (black_event \/ line \in {<<"READY">>, <<"BLACK">>})
    /\ stdout' = Tail(stdout)
    /\ signals' = Append(signals, strip(Head(stdout)))
    /\ log_writers' = log_writers \cup {"reader"}
    /\ UNCHANGED <<inputs, others, process, emitted, reader, reader_error>>

\* one iteration of: for line in self.process.stdout
read_line ==
    /\ Alive
    /\ reader = "reading"
    /\ stdout # <<>>
    /\ ~Undecodable(Head(stdout))
    /\ LET line == strip(Head(stdout)) IN
         /\ ready_event' = (ready_event \/ line = <<"READY">>)
         /\ black_event' = (black_event \/ line = <<"BLACK">>)
    /\ stdout' = Tail(stdout)
    /\ signals' = Append(signals, strip(Head(stdout)))
    /\ log_writers' = log_writers \cup {"reader"}
    /\ UNCHANGED <<inputs, others, process, emitted, reader, reader_error>>

\* the read raises: except clause, then finally
read_raises ==
    /\ Alive
    /\ reader = "reading"
    /\ stdout # <<>>
    /\ Undecodable(Head(stdout))
    /\ stdout' = Tail(stdout)
    /\ reader_error' = TRUE
    /\ log_writers' = log_writers \cup {"reader"}
    /\ reader' = "finally_ready"
    /\ UNCHANGED <<inputs, others, process, emitted, latches, signals>>

\* end of the stream: the subprocess is gone and nothing is left to read
read_eof ==
    /\ Alive
    /\ reader = "reading"
    /\ stdout = <<>>
    /\ process = "exited"
    /\ reader' = "finally_ready"
    /\ UNCHANGED <<inputs, others, process, stdout, signals, emitted, latches,
                   reader_error, log_writers>>

\* finally: self.ready_event.set()
finally_ready ==
    /\ Alive
    /\ reader = "finally_ready"
    /\ ready_event' = TRUE
    /\ reader' = "finally_black"
    /\ UNCHANGED <<inputs, others, process, stdout, signals, emitted, black_event,
                   reader_error, log_writers>>

\* a finally clause that sets the ready latch only
finally_black_not_set ==
    /\ Alive
    /\ reader = "finally_black"
    /\ reader' = "done"
    /\ UNCHANGED <<inputs, others, process, stdout, signals, emitted, latches,
                   reader_error, log_writers>>

\* finally: self.black_event.set()
finally_black ==
    /\ Alive
    /\ reader = "finally_black"
    /\ black_event' = TRUE
    /\ reader' = "done"
    /\ UNCHANGED <<inputs, others, process, stdout, signals, emitted, ready_event,
                   reader_error, log_writers>>

----------------------------------------------------------------------------
(* Specifications *)

PrimaryNext ==
    \/ main_begin
    \/ start
    \/ wait_ready_call
    \/ wait_ready_return
    \/ wait_black_call
    \/ wait_black_return
    \/ execute_power_action
    \/ test_sleep
    \/ session
    \/ boot
    \/ launch
    \/ grace_sleep
    \/ hold
    \/ terminate
    \/ terminate_exited
    \/ terminate_kill
    \/ \E m \in Methods : send_ipc_once(m)
    \/ \E m \in Methods : send_ipc_with_retry(m)
    \/ \E m \in Methods : retry_backoff(m)
    \/ cleanup_done
    \/ main_return
    \/ run_without_animation
    \/ rwa_test_sleep
    \/ rwa_session
    \/ rwa_boot
    \/ rwa_run
    \/ rwa_wait

ListenerNext ==
    \/ read_line
    \/ read_raises
    \/ read_eof
    \/ finally_ready
    \/ finally_black

AnimationNext ==
    \/ \E line \in RawLines : emit(line)
    \/ exit

Next == PrimaryNext \/ ListenerNext \/ AnimationNext

Spec == Init /\ [][Next]_vars

\* the primary flow and the listener are scheduled; every wait and sleep of
\* the primary flow ends by itself
FairSpec == Spec /\ WF_vars(PrimaryNext) /\ WF_vars(ListenerNext)

----------------------------------------------------------------------------
(* SIGTERM / SIGINT sent to the orchestrator by its environment *)

Signals == {"SIGTERM", "SIGINT"}

\* status of a process ended by the default disposition of the signal
KilledBy(sig) == IF sig = "SIGTERM" THEN 143 ELSE 130

\* a handler registered for SIGTERM only
HandledTermOnly(sig) == sig = "SIGTERM"

\* the signals install_signal_handlers registers signal_handler for
Handled(sig) == sig \in {"SIGTERM", "SIGINT"}

\* delivery of a signal: signal_handler when installed, else the default
\* disposition; sleeps, waits and reads interrupted by a handler that
\* returns are resumed by the interpreter
deliver(sig) ==
    /\ Alive
    /\ IF handlers /\ Handled(sig)
       THEN /\ interrupted' = TRUE
            /\ UNCHANGED <<pc, exit_code>>
       ELSE /\ pc' = "killed"
            /\ exit_code' = KilledBy(sig)
            /\ UNCHANGED interrupted
    /\ UNCHANGED <<inputs, handle, cmd, attempt, holds, handlers, log_writers, trace>>

SignalNext == \E sig \in Signals : deliver(sig)

NextWithSignals == Next \/ SignalNext

SignalSpec == Init /\ [][NextWithSignals]_vars

----------------------------------------------------------------------------
(* Reading the trace *)

Idx(e) == {i \in 1..Len(trace) : trace[i].ev = e}
Has(e) == Idx(e) # {}
Returned(e, n) == \E i \in Idx(e) : trace[i].n = n

\* every e2 comes after some e1
Precedes(e1, e2) == \A j \in Idx(e2) : \E i \in Idx(e1) : i < j

AnimationPath == animation_name # "none" /\ process # "None"

----------------------------------------------------------------------------
(* C1: on the animation path wait_ready is attempted before wait_black,    *)
(* and execute_power_action and every launch of a power command come after *)
(* both waits have returned, by latch or by timeout.                       *)
HandshakeBeforeAction ==
    AnimationPath =>
        /\ Precedes("wait_ready", "wait_black")
        /\ Precedes("wait_ready_ret", "wait_black")
        /\ Precedes("wait_black_ret", "execute_power_action")
        /\ Precedes("execute_power_action", "Popen")
        /\ Precedes("execute_power_action", "run")

HandshakeTimedOutThenLaunched ==
    /\ AnimationPath
    /\ Returned("wait_ready_ret", 0)
    /\ Returned("wait_black_ret", 1)
    /\ Has("Popen")

(* C2: once start() has succeeded, execute_power_action is eventually      *)
(* reached, whatever the subprocess emits and whether it exits or not.     *)
TimeoutsNeverGate == (pc = "wait_ready") ~> Has("execute_power_action")

ActionAfterBothTimeouts ==
    /\ Has("execute_power_action")
    /\ Has("warn_ready")
    /\ Has("warn_black")
    /\ process = "running"
    /\ emitted = 0

(* C3: once the subprocess has exited, or the listener's read has raised,  *)
(* the listener sets both latches (as long as the orchestrator lives);     *)
(* when the listener has finished both latches are set, and a wait called  *)
(* from then on returns true.                                              *)
ListenerDoneLatchesSet ==
    /\ reader = "done" => ready_event /\ black_event
    /\ \A i \in Idx("wait_ready") \cup Idx("wait_black") :
         (trace[i].n = 1 /\ i < Len(trace)) => trace[i + 1].n = 1

FailOpen ==
    /\ []ListenerDoneLatchesSet
    /\ (reader # "None" /\ (process = "exited" \/ reader_error))
          ~> (~Alive \/ (reader = "done" /\ ready_event /\ black_event))

ExitedSilentlyWaitsTrue ==
    /\ emitted = 0
    /\ process = "exited"
    /\ reader = "done"
    /\ \E i \in Idx("wait_ready") : trace[i].n = 1
    /\ Returned("wait_ready_ret", 1)
    /\ Returned("wait_black_ret", 1)

(* C4: a latch that is set stays set in every step, a duplicate or late    *)
(* READY/BLACK line and the end-of-stream set included, and a wait that    *)
(* returns while its latch is set returns true.                            *)
LatchesMonotonic ==
    [][ /\ ready_event => ready_event'
        /\ black_event => black_event'
        /\ (wait_ready_return /\ ready_event) => trace'[Len(trace') ].n = 1
        /\ (wait_black_return /\ black_event) => trace'[Len(trace')].n = 1 ]_vars

DuplicateReadyThenWaitTrue ==
    /\ Len(signals) = 2
    /\ signals[1] = <<"READY">>
    /\ signals[2] = <<"READY">>
    /\ reader = "done"
    /\ Returned("wait_ready_ret", 1)
    /\ Returned("wait_black_ret", 1)

(* C5: for action = test, on the no-animation path and on the animation *)
(* path, no command is launched for any hold value; the run only sleeps,   *)
(* tears the animation down, sends the cleanup IPC, and returns.           *)
TestOnlySleepsAndReturns ==
    (action = "test" /\ (animation_name = "none" \/ process # "None")) =>
        /\ ~Has("Popen")
        /\ ~Has("run")
        /\ pc # "crashed"
        /\ pc = "returned" => Has("sleep_hold") /\ Returned("return", 0)

(* C6: each call of send_ipc_with_retry makes at most 5 calls of send_ipc, *)
(* returns true right after the first success, returns false only after 5  *)
(* failures, and sleeps 1 second only between two attempts.                *)
Sends(m) == {i \in Idx("send_ipc") : trace[i].cmd = <<m>>}
Sleeps(m) == {i \in Idx("sleep_backoff") : trace[i].cmd = <<m>>}
Results(m) == {i \in Idx("retry_ret") : trace[i].cmd = <<m>>}

RetryBound ==
    Resuming =>
      \A m \in Methods :
        /\ Cardinality(Sends(m)) <= 5
        /\ Cardinality(Sleeps(m)) <= 4
        /\ \A i \in Sends(m) :
             trace[i].n = 1 =>
               /\ \A j \in Sends(m) : j <= i
               /\ i < Len(trace) /\ trace[i + 1] = Ev("retry_ret", <<m>>, 1)
        /\ \A r \in Results(m) :
             /\ r > 1 /\ trace[r - 1] = Ev("send_ipc", <<m>>, trace[r].n)
             /\ trace[r].n = 0 =>
                  Cardinality({i \in Sends(m) : trace[i].n = 0}) = 5
        /\ \A i \in Sleeps(m) :
             /\ trace[i].n = 1
             /\ i > 1 /\ trace[i - 1] = Ev("send_ipc", <<m>>, 0)
             /\ i < Len(trace) => trace[i + 1].ev = "send_ipc" /\ trace[i + 1].cmd = <<m>>

RetryExhaustedAndRetrySucceeded ==
    /\ Resuming
    /\ \E r \in Results(Unfreeze) : trace[r].n = 0
    /\ Cardinality(Sleeps(Unfreeze)) = 4
    /\ \E r \in Results(ShowCursor) : trace[r].n = 1
    /\ Cardinality(Sends(ShowCursor)) = 3

(* C7: for logout, a terminate-session command is launched only with the   *)
(* non-empty id the lookup returned; with no id none is launched, and on   *)
(* the animation path the animation is terminated before the run returns.  *)
Launches == Idx("Popen") \cup Idx("run")
IsTerminateSession(c) == Len(c) = 3 /\ c[1] = "loginctl" /\ c[2] = "terminate-session"

LogoutNeedsSession ==
    action = "logout" =>
        /\ \A i \in Launches :
             IsTerminateSession(trace[i].cmd) =>
               /\ trace[i].cmd[3] # ""
               /\ \E j \in Idx("session_id") : j < i /\ trace[j].cmd = <<trace[i].cmd[3]>>
        /\ (\E j \in Idx("session_id") : trace[j].cmd = <<"">>) =>
               /\ \A i \in Launches : ~IsTerminateSession(trace[i].cmd)
               /\ Has("error_session")
               /\ pc \notin {"launch", "rwa_run", "hold"}
        /\ (AnimationPath /\ Has("error_session") /\ pc \in {"main_return", "returned"}) =>
               /\ Has("terminate")
               /\ process = "exited"

LogoutAbortedAfterTerminate ==
    /\ action = "logout"
    /\ AnimationPath
    /\ Has("error_session")
    /\ Has("SIGKILL")
    /\ pc = "returned"

(* C8: when the animation script is not found, start() returns failure,    *)
(* nothing is spawned, the run ends with status 1 and no command or IPC is *)
(* issued.                                                                 *)
ScriptNotFoundFailsStart ==
    (animation_name # "none" /\ animations # "installed" /\ pc \notin {"main", "start"}) =>
        /\ Has("error_start")
        /\ process = "None"
        /\ reader = "None"
        /\ exit_code = 1
        /\ Launches = {}
        /\ ~Has("send_ipc")

(* C9: for windows, on both paths, a boot-entry write that exits non-zero  *)
(* is followed by a warning, the reboot command is still issued, and the   *)
(* write always comes before the reboot command.                           *)
BootRuns == {i \in Idx("run") : trace[i].cmd = BootEntryCmd}
Reboots == {i \in Launches : trace[i].cmd = POWER_COMMANDS["windows"]}

BootEntryFailureWarns ==
    action = "windows" =>
        /\ \A i \in BootRuns :
             trace[i].n # 0 => i < Len(trace) /\ trace[i + 1].ev = "warn_boot"
        /\ \A j \in Reboots : \E i \in BootRuns : i < j
        /\ pc \in {"hold", "rwa_wait", "main_return", "returned"} /\ exit_code # 1
             => Reboots # {}

(* C10: for suspend and hibernate on the animation path the order is:      *)
(* command launched detached, grace sleep, animation terminated, unfreeze  *)
(* with retry, show-cursor with retry; the run never holds and always      *)
(* returns, whatever the IPC attempts give.                                *)
ResumeOrder ==
    (AnimationPath /\ Resuming) =>
        /\ pc # "hold"
        /\ \A i \in Launches : trace[i] = Ev("Popen", POWER_COMMANDS[action], 0)
        /\ Precedes("Popen", "sleep_grace")
        /\ \A i \in Idx("sleep_grace") : trace[i].n = 3
        /\ Precedes("sleep_grace", "terminate")
        /\ \A i \in Sends(Unfreeze) : \E j \in Idx("terminate") : j < i
        /\ \A i \in Sends(ShowCursor) : \E j \in Results(Unfreeze) : j < i
        /\ pc = "returned" =>
             /\ Cardinality(Idx("Popen")) = 1
             /\ Results(ShowCursor) # {}
             /\ process = "exited"
             /\ exit_code = 0

ResumeCleansUpAndReturns ==
    /\ []ResumeOrder
    /\ (AnimationPath /\ Resuming /\ pc = "execute_power_action") ~> (pc = "returned")

ResumedWithAllIpcFailed ==
    /\ AnimationPath
    /\ action = "suspend"
    /\ pc = "returned"
    /\ \E r \in Results(Unfreeze) : trace[r].n = 0
    /\ \E r \in Results(ShowCursor) : trace[r].n = 0

(* C11: for shutdown, reboot and windows on the animation path, once the   *)
(* command is launched the orchestrator stays in the hold loop: it never   *)
(* returns, never terminates the animation, never sends unfreeze or        *)
(* show-cursor.                                                            *)
Holding == AnimationPath /\ action \in {"shutdown", "reboot", "windows"}

HeldAfterLaunch ==
    (Holding /\ Has("Popen")) =>
        /\ pc = "hold"
        /\ exit_code = -1
        /\ Cardinality(Idx("Popen")) = 1
        /\ trace[Len(trace)] = Ev("Popen", POWER_COMMANDS[action], 0)
        /\ ~Has("terminate") /\ ~Has("SIGTERM") /\ ~Has("SIGKILL")
        /\ ~Has("send_ipc")
        /\ ~Has("return")

HoldsForever ==
    /\ []HeldAfterLaunch
    /\ [][(Holding /\ pc = "hold") => (pc' = "hold" /\ trace' = trace)]_vars

HoldingWhileAnimationRuns ==
    /\ Holding
    /\ action = "windows"
    /\ pc = "hold"
    /\ holds > 1
    /\ process = "running"

(* C12: main returns 1 exactly when the animation fails to start; every    *)
(* other run that returns, returns 0.                                      *)
StartFails == animation_name # "none" /\ ~path_exists(get_animation_script(animation_name))

ExitOneIffStartFails ==
    /\ pc = "returned" => (exit_code = 1 <=> StartFails)
    /\ pc = "returned" => trace[Len(trace)] = Ev("return", <<>>, exit_code)
    /\ (StartFails /\ pc \notin {"main", "start"}) => (pc = "returned" /\ exit_code = 1)

(* C13: on the no-animation path no handle, subprocess or listener exists,  *)
(* no IPC is sent, the command is run synchronously, and the run returns   *)
(* without holding.                                                        *)
NoAnimationRunsAndReturns ==
    animation_name = "none" =>
        /\ script_path = NoPath /\ process = "None" /\ reader = "None"
        /\ ~Has("Popen_animation") /\ ~Has("thread_start")
        /\ ~Has("send_ipc")
        /\ ~Has("Popen")
        /\ \A i \in Idx("run") : trace[i].cmd \in {cmd, SessionLookupCmd, BootEntryCmd}
        /\ pc \notin {"hold", "crashed"}
        /\ pc = "returned" => exit_code = 0

(* C14: for test on the animation path the order is: hold sleep, animation *)
(* terminated, unfreeze, show-cursor, done; unfreeze and show-cursor are    *)
(* each attempted exactly once, failed or not, and the run returns.        *)
TestCleanupInOrder ==
    (action = "test" /\ AnimationPath /\ Has("execute_power_action")) =>
        /\ pc # "crashed"
        /\ Precedes("sleep_hold", "terminate")
        /\ \A i \in Sends(Unfreeze) : \E j \in Idx("terminate") : j < i
        /\ \A i \in Sends(ShowCursor) : \E j \in Sends(Unfreeze) : j < i
        /\ \A i \in Idx("test_done") : \E j \in Sends(ShowCursor) : j < i
        /\ Cardinality(Sends(Unfreeze)) <= 1
        /\ Cardinality(Sends(ShowCursor)) <= 1
        /\ ~Has("sleep_backoff") /\ ~Has("retry_ret")
        /\ pc = "returned" =>
             /\ Cardinality(Sends(Unfreeze)) = 1
             /\ Cardinality(Sends(ShowCursor)) = 1
             /\ Has("test_done")
             /\ exit_code = 0

(* C15: the signal handlers are installed before the animation is started *)
(* and before any command is launched, on both paths; from then on a       *)
(* SIGTERM or SIGINT, in whatever state it arrives, neither ends the run   *)
(* nor changes the position of the primary flow or what it has done.       *)
InstalledFirst ==
    /\ trace # <<>> => (handlers /\ trace[1] = Do("install_signal_handlers"))
    /\ (process # "None" \/ reader # "None" \/ Launches # {}) => handlers
    /\ handlers => pc # "killed"

SignalsIgnoredOnceInstalled ==
    /\ []InstalledFirst
    /\ [][handlers =>
            /\ handlers'
            /\ pc' # "killed"
            /\ exit_code' \notin {KilledBy("SIGTERM"), KilledBy("SIGINT")}
            /\ interrupted' # interrupted =>
                 /\ pc' = pc
                 /\ exit_code' = exit_code
                 /\ trace' = trace
                 /\ UNCHANGED <<handle, cmd, attempt, holds>> ]_vars

InterruptedRunCompleted ==
    /\ interrupted
    /\ action = "suspend"
    /\ AnimationPath
    /\ pc = "returned"
    /\ exit_code = 0

(* C16, as stated: the debug log is appended by the primary flow only; the *)
(* listener thread never writes to it.                                     *)
LogWrittenByPrimaryOnly == "reader" \notin log_writers

(* C16, amended: the debug log is appended by the primary flow and by the  *)
(* listener thread, which logs every line it reads and a read error; the   *)
(* listener writes nothing before start() has succeeded, nothing on the    *)
(* no-animation path, and there is no third writer.                        *)
LogWriters ==
    /\ log_writers \subseteq {"main", "reader"}
    /\ trace # <<>> => "main" \in log_writers
    /\ "reader" \in log_writers <=> (signals # <<>> \/ reader_error)
    /\ (reader = "None" \/ animation_name = "none") => "reader" \notin log_writers

ListenerLoggedDuringWait ==
    /\ pc = "in_wait_black"
    /\ reader = "reading"
    /\ signals = << <<"READY">> >>
    /\ log_writers = {"main", "reader"}

(* C17: a failed send_ipc is a false result, never an exception: after a   *)
(* failed unfreeze (also after 5 failed attempts) show-cursor is still     *)
(* attempted and the run returns with status 0.                            *)
UnfreezeFailed == \E i \in Sends(Unfreeze) : trace[i].n = 0

IpcFailureKeepsGoing ==
    Has("send_ipc") =>
        /\ pc # "crashed"
        /\ exit_code \in {-1, 0}
        /\ pc \in {"cleanup_done", "main_return", "returned"} => Sends(ShowCursor) # {}

IpcFailureNotFatal ==
    /\ []IpcFailureKeepsGoing
    /\ UnfreezeFailed ~> (pc = "returned" /\ exit_code = 0 /\ Sends(ShowCursor) # {})

ReturnedAfterUnfreezeExhausted ==
    /\ action = "hibernate"
    /\ \E r \in Results(Unfreeze) : trace[r].n = 0
    /\ \E r \in Results(ShowCursor) : trace[r].n = 1
    /\ pc = "returned"
    /\ exit_code = 0

(* C18: terminate() sends SIGTERM first and SIGKILL only when the          *)
(* subprocess is still running at the end of the grace period; a           *)
(* subprocess that exits within the grace period is not killed, and        *)
(* without a subprocess terminate() sends nothing.                         *)
TerminateOrder ==
    /\ \A s \in Idx("SIGTERM") : s > 1 /\ trace[s - 1].ev = "terminate"
    /\ \A k \in Idx("SIGKILL") : k > 1 /\ trace[k - 1].ev = "SIGTERM"
    /\ \A t \in Idx("terminate") :
         process # "None" => (t < Len(trace) /\ trace[t + 1].ev = "SIGTERM")
    /\ process = "None" => ~Has("SIGTERM") /\ ~Has("SIGKILL")

GraceStep ==
    /\ Idx("SIGKILL")' # Idx("SIGKILL") => pc = "terminate_wait" /\ process = "running"
    /\ (pc = "terminate_wait" /\ pc' # "terminate_wait" /\ process = "exited")
          => trace' = trace

TerminateEscalates == []TerminateOrder /\ [][GraceStep]_vars

KilledAfterGrace ==
    /\ Has("SIGKILL")
    /\ process = "exited"
    /\ pc = "returned"

(* C19: the latches are written by the listener only, each for a cause:    *)
(* ready after a READY line or the end of the stream, black after a BLACK  *)
(* line or the end of the stream; a READY line leaves black alone, a BLACK *)
(* line leaves ready alone, any other line leaves both alone, and no step  *)
(* of the primary flow changes a latch.                                    *)
WasRead(line) == \E i \in 1..Len(signals) : signals[i] = line
Reads(line) == signals' = Append(signals, line)
StreamEnded == process = "exited" /\ stdout = <<>> /\ reader \notin {"None", "reading"}
ListenerStopped == reader \in {"finally_ready", "finally_black", "done"}

LatchWrites ==
    /\ PrimaryNext => UNCHANGED latches
    /\ ready_event' # ready_event => (Reads(<<"READY">>) \/ reader = "finally_ready")
    /\ black_event' # black_event => (Reads(<<"BLACK">>) \/ reader = "finally_black")
    /\ Reads(<<"READY">>) => UNCHANGED black_event
    /\ Reads(<<"BLACK">>) => UNCHANGED ready_event
    /\ (signals' # signals /\ ~Reads(<<"READY">>) /\ ~Reads(<<"BLACK">>))
          => UNCHANGED latches

LatchesOnlyForSignalOrEof ==
    /\ [](/\ ready_event => (WasRead(<<"READY">>) \/ StreamEnded)
          /\ black_event => (WasRead(<<"BLACK">>) \/ StreamEnded))
    /\ [][LatchWrites]_vars

(* C19, as the code has it: the listener also sets both latches when its   *)
(* read raises, with the stream still open.                                *)
LatchesOnlyForCause ==
    /\ [](/\ ready_event => (WasRead(<<"READY">>) \/ ListenerStopped)
          /\ black_event => (WasRead(<<"BLACK">>) \/ ListenerStopped))
    /\ [][LatchWrites]_vars

LatchesSetByReadError ==
    /\ reader_error
    /\ reader = "done"
    /\ process = "running"
    /\ ready_event /\ black_event
    /\ ~WasRead(<<"READY">>) /\ ~WasRead(<<"BLACK">>)

(* C20: on the animation path terminate() never comes before the launch   *)
(* of the power command, and comes without any launch only in test mode    *)
(* and when logout is aborted for want of a session id.                    *)
TerminateAfterLaunch ==
    AnimationPath =>
        /\ \A t \in Idx("terminate") \cup Idx("SIGTERM") \cup Idx("SIGKILL") :
             \A p \in Idx("Popen") : p < t
        /\ (Has("terminate") /\ ~Has("Popen")) =>
              \/ action = "test"
              \/ action = "logout" /\ Has("error_session")
        /\ (action \notin {"test", "logout"} /\ ~Has("Popen")) =>
              pc \notin {"terminate", "terminate_wait"}

TerminatedAfterSuspendLaunched ==
    /\ AnimationPath
    /\ action = "suspend"
    /\ \E p \in Idx("Popen") : \E t \in Idx("SIGTERM") :
         p < t /\ trace[p].cmd = POWER_COMMANDS["suspend"]
    /\ pc = "returned"

(* C21: on the animation path a logout with a non-empty session id is      *)
(* launched detached and then held like a shutdown: no terminate, no       *)
(* unfreeze, no show-cursor, no return; after a launch only suspend and    *)
(* hibernate go on to the cleanup and return.                              *)
LogoutLaunched == AnimationPath /\ action = "logout" /\ Has("Popen")

CleaningUp ==
    \/ Has("sleep_grace") \/ Has("terminate") \/ Has("send_ipc") \/ Has("return")
    \/ pc \notin {"hold", "crashed", "killed"}

LogoutHeldAfterLaunch ==
    /\ LogoutLaunched =>
         /\ pc = "hold"
         /\ exit_code = -1
         /\ Cardinality(Idx("Popen")) = 1
         /\ trace[Len(trace)].ev = "Popen"
         /\ IsTerminateSession(trace[Len(trace)].cmd)
         /\ truthy(trace[Len(trace)].cmd[3])
         /\ Returned("session_id", 0) /\ ~Has("error_session")
         /\ ~Has("terminate") /\ ~Has("SIGTERM") /\ ~Has("SIGKILL")
         /\ ~Has("send_ipc")
         /\ ~Has("return")
    /\ (AnimationPath /\ Has("Popen") /\ CleaningUp) => Resuming
    /\ (AnimationPath /\ Has("Popen") /\ Resuming) => pc # "hold"

LogoutHoldsLikeShutdown ==
    /\ []LogoutHeldAfterLaunch
    /\ [][(LogoutLaunched /\ pc = "hold") => (pc' = "hold" /\ trace' = trace)]_vars

LogoutHoldingWhileAnimationRuns ==
    /\ LogoutLaunched
    /\ trace[Len(trace)].cmd = <<"loginctl", "terminate-session", "c1">>
    /\ pc = "hold"
    /\ holds > 1
    /\ process = "running"

====
